---- MODULE Spec2Model ----
\* Model of dice_tracker.py: the App command loop (cmd.Cmd) with its tally
\* (self.tracker), its range (self.range_low, self.range_high), the files the
\* save/load commands touch, and the life of the process.
EXTENDS Integers, Sequences, FiniteSets, TLC

VARIABLES
    range_low,    \* App.range_low
    range_high,   \* App.range_high
    tracker,      \* App.tracker: function from the keys of the dict to counts
    files,        \* the storage: file name -> content
    running,      \* TRUE while cmdloop() is reading commands
    exit_status,  \* status of the process once it has ended, -1 while running
    out,          \* what the last command printed (stdout and stderr), in order
    lastCmd       \* the command line the loop dispatched last: its name and arguments

vars == <<range_low, range_high, tracker, files, running, exit_status, out, lastCmd>>

------------------------------------------------------------------------------
\* Bounds of the model.

\* Counts reached by i/d stay within -MaxCount..MaxCount.
MaxCount == 1
\* A batch (the arguments of i or d) has at most MaxBatch tokens.
MaxBatch == 2

\* Program constants.
DefaultLow == 1
DefaultHigh == 6

\* Tokens are sequences of one-character strings, as str.split() yields them.
TrackTokens == { <<"1">>, <<"7">>, <<"x">> }
\* Amounts that _track is tried with in the claims about _track itself.
Amounts == -2..2
\* Values that _track is tried with in the claims about _track itself.
Values == -1..10

------------------------------------------------------------------------------
\* int(str) and str(int), as Python computes them on these tokens.

DigitChars == <<"0", "1", "2", "3", "4", "5", "6", "7", "8", "9">>

IsDigit(c) == \E i \in 1..10 : DigitChars[i] = c

DigitVal(c) == (CHOOSE i \in 1..10 : DigitChars[i] = c) - 1

\* The digits of a literal once its sign is taken off.
Unsigned(tok) ==
    IF Len(tok) > 0 /\ tok[1] \in {"+", "-"} THEN Tail(tok) ELSE tok

\* int(tok) raises ValueError unless tok is an optional sign and digits.
IsIntLiteral(tok) ==
    /\ Len(Unsigned(tok)) > 0
    /\ \A i \in 1..Len(Unsigned(tok)) : IsDigit(Unsigned(tok)[i])

RECURSIVE DigitsVal(_)
DigitsVal(ds) ==
    IF Len(ds) = 0 THEN 0
    ELSE 10 * DigitsVal(SubSeq(ds, 1, Len(ds) - 1)) + DigitVal(ds[Len(ds)])

\* int(tok) for a literal.
ParseInt(tok) ==
    IF Len(tok) > 0 /\ tok[1] = "-" THEN 0 - DigitsVal(Unsigned(tok))
    ELSE DigitsVal(Unsigned(tok))

RECURSIVE NatToStr(_)
NatToStr(n) ==
    IF n < 10 THEN <<DigitChars[n + 1]>>
    ELSE NatToStr(n \div 10) \o <<DigitChars[(n % 10) + 1]>>

\* str(n): the key json.dumps writes for the int key n.
IntToStr(n) == IF n < 0 THEN <<"-">> \o NatToStr(0 - n) ELSE NatToStr(n)

\* [int(arg.strip()) for arg in args.split()]
ParseAll(toks) == [i \in 1..Len(toks) |-> ParseInt(toks[i])]

AllInts(toks) == \A i \in 1..Len(toks) : IsIntLiteral(toks[i])

------------------------------------------------------------------------------
\* The tally engine, as functions of the state they read.

\* defaultdict(int) with no key.
EmptyTracker == [k \in {} |-> 0]

\* A printed line: what it is, the text it quotes, the numbers it shows.
Msg(tag, text, nums) == <<tag, text, nums>>

\* _get_range_err: the message names the number and the bounds.
RangeErr(num, low, high) == Msg("RangeErr", "", <<num, low, high>>)

\* The line _set_range prints.
RangeSet(low, high) == Msg("RangeSet", "", <<low, high>>)

\* A range check that takes the bounds in either order.
_in_range_swapped(low, high, num) ==
    num \in low..high \/ num \in high..low

\* A range check that lets the value after high through.
_in_range_offbyone(low, high, num) == num \in low..(high + 1)

\* _in_range(num): num in range(low, high + 1)
_in_range(low, high, num) == num \in low..high

\* _set_range that drops the keys outside the new range.
_set_range_purge(t, low, high) ==
    [k \in low..high |-> IF k \in DOMAIN t THEN t[k] ELSE 0]

\* _set_range that sets every key of the new range to 0.
_set_range_zero(t, low, high) ==
    [k \in (DOMAIN t) \cup (low..high) |-> IF k \in low..high THEN 0 ELSE t[k]]

\* _set_range that starts from a new dict.
_set_range_clear(t, low, high) == [k \in low..high |-> 0]

\* The tracker _set_range(low, high) leaves: every missing key of the range
\* is added with 0, every key already there keeps its count.
_set_range(t, low, high) ==
    [k \in (DOMAIN t) \cup (low..high) |-> IF k \in DOMAIN t THEN t[k] ELSE 0]

\* The tracker _reset_tracker leaves: a new defaultdict, then _set_range.
_reset_tracker(low, high) == _set_range(EmptyTracker, low, high)

\* _track without the range check: the defaultdict creates the key.
_track_nocheck(t, low, high, num, add_amount) ==
    [k \in (DOMAIN t) \cup {num} |->
        IF k = num THEN (IF num \in DOMAIN t THEN t[num] ELSE 0) + add_amount
        ELSE t[k]]

\* _track that keeps a count from going below 0.
_track_floor(t, low, high, num, add_amount) ==
    IF ~_in_range(low, high, num) THEN t
    ELSE [k \in (DOMAIN t) \cup {num} |->
            IF k = num
            THEN (IF (IF num \in DOMAIN t THEN t[num] ELSE 0) + add_amount < 0 THEN 0
                  ELSE (IF num \in DOMAIN t THEN t[num] ELSE 0) + add_amount)
            ELSE t[k]]

\* The tracker _track(num, add_amount) leaves. tracker[num] += add_amount on
\* a defaultdict creates the key when it is missing.
_track(t, low, high, num, add_amount) ==
    IF ~_in_range(low, high, num) THEN t
    ELSE [k \in (DOMAIN t) \cup {num} |->
            IF k = num THEN (IF num \in DOMAIN t THEN t[num] ELSE 0) + add_amount
            ELSE t[k]]

\* What _track(num, .) prints.
_track_out(low, high, num) ==
    IF ~_in_range(low, high, num) THEN <<RangeErr(num, low, high)>> ELSE <<>>

_inc(t, low, high, num, amount) == _track(t, low, high, num, amount)

_dec(t, low, high, num, amount) == _track(t, low, high, num, 0 - amount)

\* A loop that ends at the first value outside the range.
RECURSIVE TrackAll_stop(_, _, _, _, _)
TrackAll_stop(t, low, high, nums, sign) ==
    IF Len(nums) = 0 \/ ~_in_range(low, high, Head(nums)) THEN t
    ELSE TrackAll_stop(IF sign = 1 THEN _inc(t, low, high, Head(nums), 1)
                       ELSE _dec(t, low, high, Head(nums), 1),
                       low, high, Tail(nums), sign)

\* for arg in args: self._inc(arg)   (sign = 1)
\* for arg in args: self._dec(arg)   (sign = -1)
RECURSIVE TrackAll(_, _, _, _, _)
TrackAll(t, low, high, nums, sign) ==
    IF Len(nums) = 0 THEN t
    ELSE TrackAll(IF sign = 1 THEN _inc(t, low, high, Head(nums), 1)
                  ELSE _dec(t, low, high, Head(nums), 1),
                  low, high, Tail(nums), sign)

RECURSIVE TrackAllOut(_, _, _)
TrackAllOut(low, high, nums) ==
    IF Len(nums) = 0 THEN <<>>
    ELSE _track_out(low, high, Head(nums)) \o TrackAllOut(low, high, Tail(nums))

------------------------------------------------------------------------------
\* The state after App.__init__.

\* The content of a file: missing, not JSON, JSON that is no object, or a JSON
\* object given as its members <<key, value>> in the order of the text.
NoFile == [kind |-> "missing", members |-> <<>>]

Object(members) == [kind |-> "object", members |-> members]

DefaultFile == "save.json"

\* Files that are there when the program starts.
InitFiles ==
    [f \in {"save.json", "a.json", "bad.json", "list.json", "key.json", "nodir/save.json"} |->
        CASE f = "a.json" ->
                Object(<< << <<"0", "1">>, 1 >>, << <<"1">>, 2 >>, << <<"1", "0">>, -1 >> >>)
          [] f = "bad.json" -> [kind |-> "malformed", members |-> <<>>]
          [] f = "list.json" -> [kind |-> "nonobject", members |-> <<>>]
          [] f = "key.json" -> Object(<< << <<"1">>, 1 >>, << <<"x">>, 1 >> >>)
          [] OTHER -> NoFile]

\* open(f, "w") fails on these: the directory does not exist.
Unwritable == {"nodir/save.json"}

SaveNames == {"", "nodir/save.json"}
LoadNames == {"", "a.json", "bad.json", "list.json", "key.json"}

\* A command line: the name of the command and its argument tokens (the file
\* name of save and load is kept as one token).
Cmd(op, args) == [op |-> op, args |-> args]

Init ==
    /\ range_low = DefaultLow
    /\ range_high = DefaultHigh
    /\ tracker = _reset_tracker(DefaultLow, DefaultHigh)
    /\ files = InitFiles
    /\ running = TRUE
    /\ exit_status = -1
    /\ out = <<RangeSet(DefaultLow, DefaultHigh)>>
    /\ lastCmd = Cmd("init", <<>>)

------------------------------------------------------------------------------
\* The commands.

\* Batches of at most MaxBatch tokens.
Batches == UNION { [1..n -> TrackTokens] : n \in 0..MaxBatch }

\* The counts i and d reach stay within the bound.
WithinCounts(t) ==
    \A k \in DOMAIN t :
        IF k \in DOMAIN tracker /\ t[k] = tracker[k] THEN TRUE
        ELSE t[k] \in (0 - MaxCount)..MaxCount

\* An exception no handler catches leaves cmdloop(): the interpreter prints
\* the traceback and the process ends with status 1.
Crash(exc, printed) ==
    /\ running' = FALSE
    /\ exit_status' = 1
    /\ out' = printed \o <<Msg("Traceback", exc, <<>>)>>

\* sys.exit(0)
Exit(printed) ==
    /\ running' = FALSE
    /\ exit_status' = 0
    /\ out' = printed

\* The longest prefix of toks that holds integers only.
RECURSIVE IntPrefix(_)
IntPrefix(toks) ==
    IF Len(toks) = 0 \/ ~IsIntLiteral(Head(toks)) THEN <<>>
    ELSE <<Head(toks)>> \o IntPrefix(Tail(toks))

\* A batch that parses each token as it goes: the integers before a
\* malformed token are counted.
do_batch_partial(t, low, high, args, sign) ==
    TrackAll(t, low, high, ParseAll(IntPrefix(args)), sign)

\* The tracker do_i (sign = 1) or do_d (sign = -1) leaves for the tokens args.
do_batch(t, low, high, args, sign) ==
    IF ~AllInts(args) THEN t
    ELSE TrackAll(t, low, high, ParseAll(args), sign)

do_batch_out(low, high, args) ==
    IF ~AllInts(args) THEN <<Msg("ParseError", "", <<>>)>>
    ELSE (IF Len(args) = 0 THEN <<Msg("NothingToDo", "", <<>>)>> ELSE <<>>)
         \o TrackAllOut(low, high, ParseAll(args))

Batch(op, sign, args) ==
    LET t == do_batch(tracker, range_low, range_high, args, sign) IN
    /\ running
    /\ WithinCounts(t)
    /\ lastCmd' = Cmd(op, args)
    /\ tracker' = t
    /\ out' = do_batch_out(range_low, range_high, args)
    /\ UNCHANGED <<range_low, range_high, files, running, exit_status>>

do_i == \E args \in Batches : Batch("i", 1, args)

do_d == \E args \in Batches : Batch("d", -1, args)

do_reset ==
    /\ running
    /\ lastCmd' = Cmd("reset", <<>>)
    /\ tracker' = _reset_tracker(range_low, range_high)
    /\ out' = <<RangeSet(range_low, range_high)>>
    /\ UNCHANGED <<range_low, range_high, files, running, exit_status>>

\* Argument lists of rs: a range inside the first one, an empty range (low
\* above high), a token that is no integer, and lists of no, one and three
\* tokens.
RangeArgs ==
    { << <<"1">>, <<"4">> >>, << <<"5">>, <<"4">> >>,
      << <<"1">>, <<"x">> >>, << <<"x">>, <<"4">> >>,
      <<>>, << <<"4">> >>, << <<"1">>, <<"4">>, <<"5">> >> }

\* A check that takes the first two of any longer list.
rs_ok_atleast(args) == Len(args) >= 2 /\ AllInts(args)

\* do_rs accepts exactly two tokens that are both integers.
rs_ok(args) == Len(args) = 2 /\ AllInts(args)

do_rs ==
    \E args \in RangeArgs :
        /\ running
        /\ lastCmd' = Cmd("rs", args)
        /\ IF rs_ok(args)
           THEN /\ range_low' = ParseInt(args[1])
                /\ range_high' = ParseInt(args[2])
                /\ tracker' = _set_range(tracker, ParseInt(args[1]), ParseInt(args[2]))
                /\ out' = <<RangeSet(ParseInt(args[1]), ParseInt(args[2]))>>
           ELSE /\ out' = <<Msg("RangeArityError", "", <<>>)>>
                /\ UNCHANGED <<range_low, range_high, tracker>>
        /\ UNCHANGED <<files, running, exit_status>>

\* The keys of t in ascending order.
RECURSIVE SortedKeys(_)
SortedKeys(ks) ==
    IF ks = {} THEN <<>>
    ELSE LET m == CHOOSE k \in ks : \A j \in ks : k <= j
         IN <<m>> \o SortedKeys(ks \ {m})

\* json.dumps(self.tracker): an object whose keys are the int keys as strings.
\* The members are written here in ascending key order.
Serialize(t) ==
    [i \in 1..Cardinality(DOMAIN t) |->
        << IntToStr(SortedKeys(DOMAIN t)[i]), t[SortedKeys(DOMAIN t)[i]] >>]

\* Every key of the object parses as an int.
KeysAreInts(members) == \A i \in 1..Len(members) : IsIntLiteral(members[i][1])

\* {int(k): v for k, v in json.loads(text).items()}: a later member replaces an
\* earlier one with the same int key.
RECURSIVE Deserialize(_)
Deserialize(members) ==
    IF Len(members) = 0 THEN EmptyTracker
    ELSE LET rest == Deserialize(SubSeq(members, 1, Len(members) - 1))
             last == members[Len(members)]
         IN [k \in (DOMAIN rest) \cup {ParseInt(last[1])} |->
                IF k = ParseInt(last[1]) THEN last[2] ELSE rest[k]]

\* An update that keeps the count of a key that is already there.
Update_keep(t, d) ==
    [k \in (DOMAIN t) \cup (DOMAIN d) |-> IF k \in DOMAIN t THEN t[k] ELSE d[k]]

\* An update that replaces the dict by the loaded one.
Update_replace(t, d) == d

\* dict.update
Update(t, d) ==
    [k \in (DOMAIN t) \cup (DOMAIN d) |-> IF k \in DOMAIN d THEN d[k] ELSE t[k]]

\* A load that drops the loaded keys outside the range.
load_tracker_inrange(low, high, members) ==
    [k \in low..high |->
        IF k \in DOMAIN Deserialize(members) THEN Deserialize(members)[k] ELSE 0]

\* The tracker a load of the object leaves: _reset_tracker, then update.
load_tracker(low, high, members) ==
    Update(_reset_tracker(low, high), Deserialize(members))

\* filename = (filename or "").strip() or "save.json"
FileName(filename) == IF filename = "" THEN DefaultFile ELSE filename

do_save ==
    \E filename \in SaveNames :
        /\ running
        /\ lastCmd' = Cmd("save", <<<<filename>>>>)
        /\ IF FileName(filename) \in Unwritable
           THEN /\ Crash("FileNotFoundError", <<>>)
                /\ UNCHANGED files
           ELSE /\ files' = [files EXCEPT ![FileName(filename)] = Object(Serialize(tracker))]
                /\ out' = <<Msg("Saved", FileName(filename), <<>>)>>
                /\ UNCHANGED <<running, exit_status>>
        /\ UNCHANGED <<range_low, range_high, tracker>>

do_load ==
    \E filename \in LoadNames :
        LET file == files[FileName(filename)] IN
        /\ running
        /\ lastCmd' = Cmd("load", <<<<filename>>>>)
        /\ CASE file.kind = "missing" ->
                    /\ Crash("FileNotFoundError", <<>>)
                    /\ UNCHANGED tracker
             [] file.kind = "malformed" ->
                    /\ Crash("JSONDecodeError", <<RangeSet(range_low, range_high)>>)
                    /\ tracker' = _reset_tracker(range_low, range_high)
             [] file.kind = "nonobject" ->
                    /\ Crash("AttributeError", <<RangeSet(range_low, range_high)>>)
                    /\ tracker' = _reset_tracker(range_low, range_high)
             [] file.kind = "object" /\ ~KeysAreInts(file.members) ->
                    /\ Crash("ValueError", <<RangeSet(range_low, range_high)>>)
                    /\ tracker' = _reset_tracker(range_low, range_high)
             [] OTHER ->
                    /\ tracker' = load_tracker(range_low, range_high, file.members)
                    /\ out' = <<RangeSet(range_low, range_high),
                                Msg("Loaded", FileName(filename), <<>>)>>
                    /\ UNCHANGED <<running, exit_status>>
        /\ UNCHANGED <<range_low, range_high, files>>

RECURSIVE Sum(_, _)
Sum(f, ks) ==
    IF ks = {} THEN 0
    ELSE LET k == CHOOSE x \in ks : TRUE IN f[k] + Sum(f, ks \ {k})

\* sum(self.tracker.values())
Total(t) == Sum(t, DOMAIN t)

\* A test that looks for a count that is not 0 instead of summing.
NoOccurrences_allzero(t) == \A k \in DOMAIN t : t[k] = 0

\* if not total
NoOccurrences(t) == Total(t) = 0

\* An average roll that adds up the keys without their counts.
WeightedSum_unweighted(t) == Sum([k \in DOMAIN t |-> k], DOMAIN t)

\* sum(k * v for k, v in self.tracker.items())
WeightedSum(t) == Sum([k \in DOMAIN t |-> k * t[k]], DOMAIN t)

\* sum(self.tracker.keys())
KeySum(t) == Sum([k \in DOMAIN t |-> k], DOMAIN t)

\* total_perc: the percents of the rows added up, as a numerator over total.
PercentSum(t) == Sum([k \in DOMAIN t |-> 100 * t[k]], DOMAIN t)

\* The divisor of the fair percent: self.range_high + 1 - self.range_low
FairDivisor(low, high) == high + 1 - low

\* Rows and averages taken from the keys inside the range only.
StatsLines_inrange(t) ==
    LET u == [k \in (DOMAIN t) \cap (range_low..range_high) |-> t[k]] IN
    <<Msg("Header", "", <<>>)>>
    \o [i \in 1..Cardinality(DOMAIN u) |->
          Msg("Row", "", <<SortedKeys(DOMAIN u)[i], u[SortedKeys(DOMAIN u)[i]],
                           100 * u[SortedKeys(DOMAIN u)[i]], Total(t)>>)]
    \o <<Msg("Total", "", <<Total(t)>>),
         Msg("TotalPercent", "", <<PercentSum(t), Total(t)>>),
         Msg("AverageRoll", "", <<WeightedSum(t), Total(t)>>),
         Msg("ExpectedAverageRoll", "", <<KeySum(u), Cardinality(DOMAIN u)>>),
         Msg("AverageOccurrences", "", <<Total(t), Cardinality(DOMAIN u)>>)>>

\* The lines do_p prints up to the fair percent; a quotient is shown as its
\* numerator and denominator.
StatsLines(t) ==
    <<Msg("Header", "", <<>>)>>
    \o [i \in 1..Cardinality(DOMAIN t) |->
          Msg("Row", "", <<SortedKeys(DOMAIN t)[i], t[SortedKeys(DOMAIN t)[i]],
                           100 * t[SortedKeys(DOMAIN t)[i]], Total(t)>>)]
    \o <<Msg("Total", "", <<Total(t)>>),
         Msg("TotalPercent", "", <<PercentSum(t), Total(t)>>),
         Msg("AverageRoll", "", <<WeightedSum(t), Total(t)>>),
         Msg("ExpectedAverageRoll", "", <<KeySum(t), Cardinality(DOMAIN t)>>),
         Msg("AverageOccurrences", "", <<Total(t), Cardinality(DOMAIN t)>>)>>

do_p ==
    /\ running
    /\ lastCmd' = Cmd("p", <<>>)
    /\ IF NoOccurrences(tracker)
       THEN /\ out' = <<Msg("TotalZero", "", <<>>)>>
            /\ UNCHANGED <<running, exit_status>>
       ELSE IF FairDivisor(range_low, range_high) = 0
       THEN Crash("ZeroDivisionError", StatsLines(tracker))
       ELSE /\ out' = StatsLines(tracker)
                      \o <<Msg("FairPercent", "", <<100, FairDivisor(range_low, range_high)>>)>>
            /\ UNCHANGED <<running, exit_status>>
    /\ UNCHANGED <<range_low, range_high, tracker, files>>

do_EOF ==
    /\ running
    /\ lastCmd' = Cmd("EOF", <<>>)
    /\ Exit(<<Msg("Newline", "", <<>>)>>)
    /\ UNCHANGED <<range_low, range_high, tracker, files>>

do_exit ==
    /\ running
    /\ lastCmd' = Cmd("exit", <<>>)
    /\ Exit(<<>>)
    /\ UNCHANGED <<range_low, range_high, tracker, files>>

do_quit ==
    /\ running
    /\ lastCmd' = Cmd("quit", <<>>)
    /\ Exit(<<>>)
    /\ UNCHANGED <<range_low, range_high, tracker, files>>

emptyline ==
    /\ running
    /\ lastCmd' = Cmd("", <<>>)
    /\ out' = <<>>
    /\ UNCHANGED <<range_low, range_high, tracker, files, running, exit_status>>

Next ==
    \/ do_i \/ do_d \/ do_reset \/ do_rs \/ do_p \/ do_save \/ do_load
    \/ do_EOF \/ do_exit \/ do_quit \/ emptyline

Spec == Init /\ [][Next]_vars

\* A session that rolls a die: i and d of one value of 1..6, p and reset.
DieTokens == { <<"1">>, <<"2">>, <<"3">>, <<"4">>, <<"5">>, <<"6">> }

do_i_die == \E tok \in DieTokens : Batch("i", 1, <<tok>>)

do_d_die == \E tok \in DieTokens : Batch("d", -1, <<tok>>)

NextStats == do_i_die \/ do_d_die \/ do_p \/ do_reset

SpecStats == Init /\ [][NextStats]_vars

------------------------------------------------------------------------------
\* Properties.

InRange(v) == _in_range(range_low, range_high, v)

\* The last command was rs with two integer tokens: _set_range ran.
RsDone == lastCmd.op = "rs" /\ rs_ok(lastCmd.args)

\* The last command was reset.
ResetDone == lastCmd.op = "reset"

\* C1: in every reachable state every integer of [range_low, range_high] is
\* a key of the tracker.
C1_RangeKeysPresent == \A v \in range_low..range_high : v \in DOMAIN tracker

\* A load into a range that is not the first one, with a key outside it.
C1_Witness ==
    /\ lastCmd = Cmd("load", << <<"a.json">> >>)
    /\ running
    /\ range_low = 1 /\ range_high = 4
    /\ 10 \in DOMAIN tracker

\* C2, on _track: for a value outside the range and any amount the tracker
\* is left as it is, keys included, and the range error is printed.
C2_Track ==
    \A v \in Values : \A a \in Amounts :
        ~InRange(v) =>
            /\ _track(tracker, range_low, range_high, v, a) = tracker
            /\ DOMAIN _track(tracker, range_low, range_high, v, a) = DOMAIN tracker
            /\ _track_out(range_low, range_high, v) = <<RangeErr(v, range_low, range_high)>>

\* C2, on the commands: i or d of one integer outside the range changes
\* neither the tracker nor the range and prints the range error.
C2_Step ==
    ( /\ lastCmd'.op \in {"i", "d"}
      /\ Len(lastCmd'.args) = 1
      /\ AllInts(lastCmd'.args)
      /\ ~InRange(ParseInt(lastCmd'.args[1])) )
    => /\ tracker' = tracker
       /\ DOMAIN tracker' = DOMAIN tracker
       /\ range_low' = range_low /\ range_high' = range_high
       /\ out' = <<RangeErr(ParseInt(lastCmd'.args[1]), range_low, range_high)>>

\* C2: tracking a value outside [range_low, range_high] is a no-op on the
\* tracker (no key is created) and on the range, and reports the range error.
C2_OutOfRangeNoop == []C2_Track /\ [][C2_Step]_vars

\* i 7 under the range [1, 6].
C2_Witness ==
    /\ lastCmd = Cmd("i", << <<"7">> >>)
    /\ range_low = 1 /\ range_high = 6
    /\ out = <<RangeErr(7, 1, 6)>>
    /\ 7 \notin DOMAIN tracker

\* C3: every count in the tracker is non-negative.
C3_NonNegativeCounts == \A k \in DOMAIN tracker : tracker[k] >= 0

\* C4 as stated: right after reset and right after rs the keys of the tracker
\* are exactly the integers of the range.
C4_KeysEqualRange ==
    (ResetDone \/ RsDone) => DOMAIN tracker = range_low..range_high

\* C4 as amended: right after reset the keys are exactly the integers of the
\* range; right after rs they are the keys from before together with the
\* integers of the new range.
C4_Step ==
    /\ ResetDone' => DOMAIN tracker' = range_low'..range_high'
    /\ RsDone' => DOMAIN tracker' = (DOMAIN tracker) \cup (range_low'..range_high')

C4_KeysAfterResetOrRange == [][C4_Step]_vars

\* rs 1 4 that left keys outside the new range.
C4_Witness ==
    /\ lastCmd = Cmd("rs", << <<"1">>, <<"4">> >>)
    /\ range_low = 1 /\ range_high = 4
    /\ {5, 6} \subseteq DOMAIN tracker

\* C5 as stated: right after reset and right after rs every integer of the
\* range is a key with count 0.
C5_RangeAllZero ==
    (ResetDone \/ RsDone) =>
        \A v \in range_low..range_high : v \in DOMAIN tracker /\ tracker[v] = 0

\* C5 as amended: right after reset every integer of the range is a key with
\* count 0; right after rs every integer of the range is a key, with count 0
\* if it was no key before and with the count it had otherwise.
C5_Step ==
    /\ ResetDone' =>
         \A v \in range_low'..range_high' : v \in DOMAIN tracker' /\ tracker'[v] = 0
    /\ RsDone' =>
         \A v \in range_low'..range_high' :
            /\ v \in DOMAIN tracker'
            /\ tracker'[v] = IF v \in DOMAIN tracker THEN tracker[v] ELSE 0

C5_CountsAfterResetOrRange == [][C5_Step]_vars

\* rs 1 4 with a count in the new range that is not 0.
C5_Witness ==
    /\ lastCmd = Cmd("rs", << <<"1">>, <<"4">> >>)
    /\ range_low = 1 /\ range_high = 4
    /\ tracker[1] # 0

\* C6: rs keeps every key with its count, adds only integers of the new range
\* that were no keys, each with 0; a key left outside the range is then
\* rejected by _track.
C6_Step ==
    RsDone' =>
        /\ \A k \in DOMAIN tracker : k \in DOMAIN tracker' /\ tracker'[k] = tracker[k]
        /\ \A k \in (DOMAIN tracker') \ (DOMAIN tracker) :
              k \in range_low'..range_high' /\ tracker'[k] = 0
        /\ \A k \in (DOMAIN tracker') \ (range_low'..range_high') : \A a \in Amounts :
              /\ _track(tracker', range_low', range_high', k, a) = tracker'
              /\ _track_out(range_low', range_high', k) # <<>>

C6_SetRangeKeepsEntries == [][C6_Step]_vars

\* rs 1 4 after which 5 and 6 are still keys, and a key outside the range has
\* kept a count that is not 0.
C6_Witness ==
    /\ lastCmd = Cmd("rs", << <<"1">>, <<"4">> >>)
    /\ range_low = 1 /\ range_high = 4
    /\ {5, 6} \subseteq DOMAIN tracker
    /\ \E k \in DOMAIN tracker : ~InRange(k) /\ tracker[k] # 0

\* C7: _inc(v, a) followed by _dec(v, a) leaves the tracker as it was, for a
\* value in the range or not.
C7_IncDecRoundTrip ==
    \A v \in Values : \A a \in Amounts :
        _dec(_inc(tracker, range_low, range_high, v, a),
             range_low, range_high, v, a) = tracker

\* d 1 that took back an i 1: all counts are 0 again, with no load or reset
\* in between to clear them.
C7_Witness ==
    /\ lastCmd = Cmd("d", << <<"1">> >>)
    /\ out = <<>>
    /\ range_low = 1 /\ range_high = 6
    /\ tracker = _reset_tracker(1, 6)
    /\ files = InitFiles

\* C8: the tracker saved and then loaded into an engine with the same range
\* is the tracker that was saved, keys outside the range included.
C8_SaveLoadRoundTrip ==
    load_tracker(range_low, range_high, Serialize(tracker)) = tracker

\* A load of what save wrote, with a key outside the range and a count that
\* is not 0.
C8_Witness ==
    /\ lastCmd = Cmd("load", << <<"">> >>)
    /\ running
    /\ files[DefaultFile] = Object(Serialize(tracker))
    /\ \E k \in DOMAIN tracker : ~InRange(k) /\ tracker[k] # 0

\* C9: the session ends only on exit, quit or EOF, with status 0.
C9_OnlyExitTerminates ==
    ~running => lastCmd.op \in {"exit", "quit", "EOF"} /\ exit_status = 0

\* C10: i or d with a token that is no integer changes no count and not the
\* range, and prints the parse error only.
C10_Step ==
    (lastCmd'.op \in {"i", "d"} /\ ~AllInts(lastCmd'.args)) =>
        /\ tracker' = tracker
        /\ range_low' = range_low /\ range_high' = range_high
        /\ out' = <<Msg("ParseError", "", <<>>)>>

C10_MalformedBatchRejected == [][C10_Step]_vars

\* i 1 x: the integer before the malformed token was not counted.
C10_Witness ==
    /\ lastCmd = Cmd("i", << <<"1">>, <<"x">> >>)
    /\ out = <<Msg("ParseError", "", <<>>)>>
    /\ tracker = _reset_tracker(1, 6)

\* C11: rs with anything but exactly two integer tokens reports the error and
\* changes neither the range nor the tracker.
C11_Step ==
    (lastCmd'.op = "rs" /\ (Len(lastCmd'.args) # 2 \/ ~AllInts(lastCmd'.args))) =>
        /\ range_low' = range_low /\ range_high' = range_high
        /\ tracker' = tracker
        /\ out' = <<Msg("RangeArityError", "", <<>>)>>
        /\ running'

C11_BadRangeArgsRejected == [][C11_Step]_vars

\* rs 1 4 5 under the first range: three integers are refused.
C11_Witness ==
    /\ lastCmd = Cmd("rs", << <<"1">>, <<"4">>, <<"5">> >>)
    /\ out = <<Msg("RangeArityError", "", <<>>)>>
    /\ range_low = 1 /\ range_high = 6

\* The sum of the counts, key by key in ascending order.
RECURSIVE CountsFrom(_, _)
CountsFrom(t, k) ==
    IF \A j \in DOMAIN t : j < k THEN 0
    ELSE (IF k \in DOMAIN t THEN t[k] ELSE 0) + CountsFrom(t, k + 1)

SumOfCounts(t) ==
    IF DOMAIN t = {} THEN 0
    ELSE CountsFrom(t, CHOOSE k \in DOMAIN t : \A j \in DOMAIN t : k <= j)

\* C12: p in a state whose counts sum to 0 prints the no-occurrences line
\* only, divides nothing (the loop goes on) and changes neither the tracker
\* nor the range.
C12_Step ==
    (lastCmd'.op = "p" /\ SumOfCounts(tracker) = 0) =>
        /\ out' = <<Msg("TotalZero", "", <<>>)>>
        /\ running' /\ exit_status' = exit_status
        /\ tracker' = tracker
        /\ range_low' = range_low /\ range_high' = range_high

C12_ZeroTotalStats == [][C12_Step]_vars

\* p where counts that are not 0 cancel out.
C12_Witness ==
    /\ lastCmd = Cmd("p", <<>>)
    /\ out = <<Msg("TotalZero", "", <<>>)>>
    /\ running
    /\ \E k \in DOMAIN tracker : tracker[k] # 0

\* How often k stands in nums.
Occurrences(nums, k) == Cardinality({i \in 1..Len(nums) : nums[i] = k})

\* The range errors a batch prints: one for each value outside the range, in
\* the order of the batch.
RangeErrs(nums, low, high) ==
    LET outside == SelectSeq(nums, LAMBDA n : n \notin low..high)
    IN [i \in 1..Len(outside) |-> RangeErr(outside[i], low, high)]

\* C13: in a batch of integers every value in the range has its count changed
\* by 1 for each time it stands in the batch (up for i, down for d), every
\* value outside the range is reported and skipped, and the values after it
\* are still counted.
C13_Step ==
    (lastCmd'.op \in {"i", "d"} /\ AllInts(lastCmd'.args)) =>
        LET nums == ParseAll(lastCmd'.args)
            sign == IF lastCmd'.op = "i" THEN 1 ELSE -1
        IN /\ DOMAIN tracker' = DOMAIN tracker
           /\ \A k \in DOMAIN tracker :
                tracker'[k] = tracker[k]
                    + (IF k \in range_low..range_high
                       THEN sign * Occurrences(nums, k) ELSE 0)
           /\ out' = (IF Len(nums) = 0 THEN <<Msg("NothingToDo", "", <<>>)>> ELSE <<>>)
                     \o RangeErrs(nums, range_low, range_high)
           /\ running'

C13_BatchEachValue == [][C13_Step]_vars

\* i 7 1 from all counts 0: 7 is reported, and the 1 after it is counted.
C13_Witness ==
    /\ lastCmd = Cmd("i", << <<"7">>, <<"1">> >>)
    /\ out = <<RangeErr(7, 1, 6)>>
    /\ tracker = [k \in 1..6 |-> IF k = 1 THEN 1 ELSE 0]
    /\ files = InitFiles

\* The file the last load command named.
LoadedFile == files[FileName(lastCmd.args[1][1])]

\* C14: a load that succeeds leaves the range as it is; every key of the
\* data ends with the count of the data, in the range or not; every integer
\* of the range that the data does not hold has count 0; there is no other
\* key.
C14_Step ==
    (lastCmd'.op = "load" /\ running') =>
        LET data == Deserialize(LoadedFile'.members)
        IN /\ range_low' = range_low /\ range_high' = range_high
           /\ DOMAIN tracker' = (DOMAIN data) \cup (range_low..range_high)
           /\ \A k \in DOMAIN data : tracker'[k] = data[k]
           /\ \A k \in (range_low..range_high) \ (DOMAIN data) : tracker'[k] = 0

C14_LoadOverlay == [][C14_Step]_vars

\* load a.json under the range [1, 4]: the key 10 outside the range came
\* with its count, the later member "1" won over "01", the rest is 0.
C14_Witness ==
    /\ lastCmd = Cmd("load", << <<"a.json">> >>)
    /\ running
    /\ range_low = 1 /\ range_high = 4
    /\ tracker[10] = -1 /\ tracker[1] = 2 /\ tracker[2] = 0

\* C15, on rs: two integers with low above high are taken as the range, the
\* loop goes on, and no key is added.
C15_SetStep ==
    ( /\ lastCmd'.op = "rs"
      /\ Len(lastCmd'.args) = 2
      /\ AllInts(lastCmd'.args)
      /\ ParseInt(lastCmd'.args[1]) > ParseInt(lastCmd'.args[2]) )
    => /\ range_low' = ParseInt(lastCmd'.args[1])
       /\ range_high' = ParseInt(lastCmd'.args[2])
       /\ tracker' = tracker
       /\ running'
       /\ out' = <<RangeSet(range_low', range_high')>>

\* C15, on _track: while low is above high every value is rejected.
C15_Track ==
    range_low > range_high =>
        \A v \in Values : \A a \in Amounts :
            /\ _track(tracker, range_low, range_high, v, a) = tracker
            /\ _track_out(range_low, range_high, v) = <<RangeErr(v, range_low, range_high)>>

\* C15, on the commands: while low is above high, i and d of integers change
\* no count.
C15_TrackStep ==
    ( /\ lastCmd'.op \in {"i", "d"}
      /\ AllInts(lastCmd'.args)
      /\ range_low > range_high )
    => /\ tracker' = tracker
       /\ Len(out') >= Len(lastCmd'.args)

\* C15: rs with low above high succeeds and adds no key; from then on every
\* value is rejected as out of range, until rs sets a range that is not empty.
C15_EmptyRange == []C15_Track /\ [][C15_SetStep /\ C15_TrackStep]_vars

\* i 1 under the range [5, 4]: 1 was in the first range and is rejected now.
C15_Witness ==
    /\ lastCmd = Cmd("i", << <<"1">> >>)
    /\ range_low = 5 /\ range_high = 4
    /\ out = <<RangeErr(1, 5, 4)>>
    /\ 1 \in DOMAIN tracker

\* The sum of the integers of a set.
RECURSIVE SetSum(_)
SetSum(S) ==
    IF S = {} THEN 0
    ELSE LET m == CHOOSE k \in S : \A j \in S : j <= k IN m + SetSum(S \ {m})

\* The numbers of the i-th line of what was printed.
Nums(lines, i) == lines[i][3]

\* The part of C16 about the keys: with a total that is not 0, p prints one
\* row for every key of the tracker, keys outside the range included, in
\* ascending key order, each with the count of its key; the expected average
\* roll and the average occurrences are taken over all these keys.
C16_Rows ==
    (lastCmd'.op = "p" /\ SumOfCounts(tracker) # 0) =>
        LET n == Cardinality(DOMAIN tracker) IN
        /\ Len(out') = n + 7
        /\ \A i \in 1..n :
              /\ out'[i + 1][1] = "Row"
              /\ Nums(out', i + 1)[1] \in DOMAIN tracker
              /\ Nums(out', i + 1)[2] = tracker[Nums(out', i + 1)[1]]
        /\ \A i \in 1..n : \A j \in 1..n :
              i < j => Nums(out', i + 1)[1] < Nums(out', j + 1)[1]
        /\ out'[n + 5] = Msg("ExpectedAverageRoll", "", <<SetSum(DOMAIN tracker), n>>)
        /\ out'[n + 6] = Msg("AverageOccurrences", "", <<SumOfCounts(tracker), n>>)

\* The part of C16 about the fair percent: with a total that is not 0, the
\* report ends with the fair percent, 100 over high - low + 1 of the range as
\* it is now.
C16_Fair ==
    (lastCmd'.op = "p" /\ SumOfCounts(tracker) # 0) =>
        /\ running'
        /\ out'[Len(out')] = Msg("FairPercent", "", <<100, range_high - range_low + 1>>)

\* C16: with a total that is not 0, p takes its rows, the expected average
\* roll and the average occurrences from all keys of the tracker, keys outside
\* the range included, in ascending key order, and the fair percent from the
\* range as it is now, as 100 over high - low + 1.
C16_StatsSources == [][C16_Rows /\ C16_Fair]_vars

\* What the code does of C16: the rows and averages always; the fair percent
\* unless high - low + 1 is 0, where the division raises.
C16_StatsSourcesButZeroDivisor ==
    [][C16_Rows /\ (range_high - range_low + 1 # 0 => C16_Fair)]_vars

\* p under the range [1, 4] with the keys of [1, 6] still there: six rows and
\* a fair percent of 25.
C16_Witness ==
    /\ lastCmd = Cmd("p", <<>>)
    /\ range_low = 1 /\ range_high = 4
    /\ DOMAIN tracker = 1..6
    /\ Len(out) = 13
    /\ \A i \in 1..6 : out[i + 1][1] = "Row" /\ Nums(out, i + 1)[1] = i
    /\ out[13][1] = "FairPercent"
    /\ Nums(out, 13)[1] = 25 * Nums(out, 13)[2]

\* Over the rows 2..n+1 of a report: the sum of key * count, and the sum of
\* the numerators of the percents.
RECURSIVE RowsWeighted(_, _)
RowsWeighted(lines, n) ==
    IF n = 0 THEN 0
    ELSE Nums(lines, n + 1)[1] * Nums(lines, n + 1)[2] + RowsWeighted(lines, n - 1)

RECURSIVE RowsPercent(_, _)
RowsPercent(lines, n) ==
    IF n = 0 THEN 0
    ELSE Nums(lines, n + 1)[3] + RowsPercent(lines, n - 1)

\* C17, in every state with a total that is not 0: p reports the sum of the
\* counts as total, the sum of key * count over total as average roll, the sum
\* of the keys over the number of keys as expected average roll, and row
\* percents (100 * count over total) that add up to 100.
C17_Step ==
    (lastCmd'.op = "p" /\ SumOfCounts(tracker) # 0) =>
        LET n == Cardinality(DOMAIN tracker)
            total == SumOfCounts(tracker)
        IN /\ out'[n + 2] = Msg("Total", "", <<total>>)
           /\ \A i \in 1..n :
                /\ Nums(out', i + 1)[3] = 100 * tracker[Nums(out', i + 1)[1]]
                /\ Nums(out', i + 1)[4] = total
           /\ RowsPercent(out', n) = 100 * total
           /\ out'[n + 3] = Msg("TotalPercent", "", <<100 * total, total>>)
           /\ out'[n + 4] = Msg("AverageRoll", "", <<RowsWeighted(out', n), total>>)
           /\ out'[n + 5] = Msg("ExpectedAverageRoll", "", <<SetSum(DOMAIN tracker), n>>)

\* C17, for the range [1, 6] with each of 1..6 counted once: total 6, average
\* roll 3.5, expected average roll 3.5, fair percent 100 / 6.
C17_Scenario ==
    ( /\ lastCmd.op = "p"
      /\ range_low = 1 /\ range_high = 6
      /\ tracker = [k \in 1..6 |-> 1] )
    => /\ Len(out) = 13
       /\ out[8] = Msg("Total", "", <<6>>)
       /\ out[10][1] = "AverageRoll" /\ 2 * Nums(out, 10)[1] = 7 * Nums(out, 10)[2]
       /\ out[11][1] = "ExpectedAverageRoll" /\ 2 * Nums(out, 11)[1] = 7 * Nums(out, 11)[2]
       /\ out[13] = Msg("FairPercent", "", <<100, 6>>)

\* C17: the totals and averages p reports are the sums over the tracker that
\* the report names, and the row percents add up to 100.
C17_StatsValues == []C17_Scenario /\ [][C17_Step]_vars

\* p after each of 1..6 was counted once.
C17_Witness ==
    /\ lastCmd = Cmd("p", <<>>)
    /\ range_low = 1 /\ range_high = 6
    /\ tracker = [k \in 1..6 |-> 1]
    /\ out[8] = Msg("Total", "", <<6>>)

\* C18: whenever the total is not 0 the tracker has a key and
\* range_high - range_low + 1 is not 0, so that p divides by no zero and the
\* session goes on.
C18_Divisors ==
    SumOfCounts(tracker) # 0 =>
        /\ Cardinality(DOMAIN tracker) # 0
        /\ range_high - range_low + 1 # 0

C18_Step ==
    (lastCmd'.op = "p" /\ SumOfCounts(tracker) # 0) =>
        /\ running'
        /\ out'[Len(out')][1] # "Traceback"

C18_NoZeroDivision == []C18_Divisors /\ [][C18_Step]_vars

\* C19: a load that fails (the file cannot be opened, its content does not
\* parse, or a key is no integer) leaves the tracker and the range as they
\* were before the command.
C19_Step ==
    (lastCmd'.op = "load" /\ ~running') =>
        /\ tracker' = tracker
        /\ range_low' = range_low
        /\ range_high' = range_high

C19_FailedLoadKeepsState == [][C19_Step]_vars

\* What does hold: a load that cannot open the file leaves the tracker and
\* the range as they were.
C19_OpenFailureKeepsState ==
    [][(lastCmd'.op = "load" /\ LoadedFile'.kind = "missing") =>
            /\ ~running'
            /\ tracker' = tracker
            /\ range_low' = range_low
            /\ range_high' = range_high]_vars

\* C20, on the commands: the keys of the tracker and the range change only
\* through rs, reset and load; p and save leave the tracker and the range as
\* they are.
C20_Step ==
    /\ ( \/ DOMAIN tracker' # DOMAIN tracker
         \/ range_low' # range_low
         \/ range_high' # range_high )
       => lastCmd'.op \in {"rs", "reset", "load"}
    /\ lastCmd'.op \in {"p", "save"} =>
          /\ tracker' = tracker
          /\ range_low' = range_low
          /\ range_high' = range_high

\* C20, on _track: for a value of the range and any amount, _track leaves
\* the keys as they are, adds the amount to the count of the value and
\* leaves every other count as it is.
C20_Track ==
    \A v \in Values : \A a \in Amounts :
        v \in range_low..range_high =>
            LET t == _track(tracker, range_low, range_high, v, a)
            IN /\ DOMAIN t = DOMAIN tracker
               /\ t[v] = tracker[v] + a
               /\ \A k \in DOMAIN tracker \ {v} : t[k] = tracker[k]

\* C20: only rs, reset and load change the keys or the range; an in-range
\* _track changes one count by the amount and creates no key; p and save
\* change nothing of the tracker or the range.
C20_Frame == []C20_Track /\ [][C20_Step]_vars

\* A save that went through, of a tracker with a count and keys outside the
\* range.
C20_Witness ==
    /\ lastCmd.op = "save"
    /\ running
    /\ range_low = 1 /\ range_high = 4
    /\ 6 \in DOMAIN tracker
    /\ tracker[1] = 1
====
